---- MODULE Spec2Model ----
(***************************************************************************)
(* State-machine model of dlnan/quickstartup-template:                     *)
(*   src/project_name/quickstartup/models.py  (Page, Contact, User)        *)
(*   src/gencc.py                             (cookiecutter generator)     *)
(* Strings are sequences of one-character strings, so that the regular     *)
(* expressions and the string methods of the source are computed.          *)
(***************************************************************************)
EXTENDS Integers, Sequences, FiniteSets, TLC

VARIABLES
    \* ---- models.py: User / UserManager
    users,      \* persisted User rows, in insertion order
    events,     \* signals sent so far (inactive_user_created, user_activated)
    last,       \* the last UserManager call: inputs, outcome, state before it
    now,        \* timezone.now()
    days,       \* settings.ACCOUNT_ACTIVATION_DAYS
    spent,      \* keys presented to activate_user while unexpired and unconsumed
    \* ---- models.py: Contact / send_contact_mail
    contacts,   \* persisted Contact rows
    outbox,     \* messages handed to EmailMessage.send
    flag,       \* settings.DEFAULT_TRANSACTIONAL_EMAIL.get("contact") at import
    receivers,  \* dispatch_uids connected to post_save of Contact
    nsaves,     \* number of Contact saves that updated an existing row
    \* ---- models.py: Page
    pages,      \* persisted Page rows
    lastPage,   \* the last Page.save call
    \* ---- gencc.py
    target,     \* the name of the target directory
    present,    \* the nodes of the tree that exist on disk
    names,      \* each node's base name
    names0,     \* each node's base name when the tree was exported
    text,       \* each file's content
    settings,   \* the substitution table, in dict iteration order
    pc,         \* where main (or a caller of generate_cookiecutter) stands
    stack,      \* os.walk: the directories still to be listed, by path
    processed,  \* directories whose loop body ran in the current walk
    snap,       \* the files' content at the start and after each walk
    cloneRc,    \* outcome of "git clone": "notrun", "ok" or "fail"
    exportRc,   \* outcome of "git archive | tar": "notrun", "ok" or "fail"
    err         \* the uncaught exception that ended main, if any

userVars    == <<users, events, last, now, days, spent>>
contactVars == <<contacts, outbox, flag, receivers, nsaves>>
pageVars    == <<pages, lastPage>>
genVars     == <<target, present, names, names0, text, settings, pc, stack,
                 processed, snap, cloneRc, exportRc, err>>
vars        == <<users, events, last, now, days, spent,
                 contacts, outbox, flag, receivers, nsaves,
                 pages, lastPage,
                 target, present, names, names0, text, settings, pc, stack,
                 processed, snap, cloneRc, exportRc, err>>

(***************************************************************************)
(* Bounds                                                                  *)
(***************************************************************************)
MaxTime     == 2
MaxDays     == 2
MaxContacts == 3
MaxSaves    == 2
MaxPages    == 2
MaxUrlLen   == 3
MaxTextLen  == 5
MaxRuns     == 2

(***************************************************************************)
(* Strings                                                                 *)
(***************************************************************************)
Range(s) == {s[i] : i \in 1..Len(s)}

SeqsUpTo(S, n) == UNION {[1..k -> S] : k \in 0..n}

HexChars == {"a", "b", "c", "d", "e", "f",
             "0", "1", "2", "3", "4", "5", "6", "7", "8", "9"}

\* models.py:19  SHA1_RE = re.compile('^[a-f0-9]{40}$'); in Python '$' also
\* matches just before a newline that ends the string.
SHA1_RE_search(s) ==
    \/ Len(s) = 40 /\ Range(s) \subseteq HexChars
    \/ Len(s) = 41 /\ s[41] = "\n" /\ Range(SubSeq(s, 1, 40)) \subseteq HexChars

\* models.py:20
ACTIVATED == <<"A", "L", "R", "E", "A", "D", "Y", "_",
               "A", "C", "T", "I", "V", "A", "T", "E", "D">>

\* The value Python calls None, and the empty string
None    == <<"None">>
Empty   == <<>>
Truthy(x) == x # None /\ x # Empty

(***************************************************************************)
(* User, UserManager                                                       *)
(***************************************************************************)
Locals  == {"a", "b"}
Domains == {"x.org", "X.org"}
EmailInputs == {None, Empty, <<"b", "@", "x.org">>}
               \cup {<<"a", "@", d>> : d \in Domains}
PasswordInputs == {<<"p", "w">>}
ExtraInfos == {<<"i">>}

\* str.lower() on the domain part
lower(d) == IF d = "X.org" THEN "x.org" ELSE d

\* BaseUserManager.normalize_email, called at models.py:100: the part after
\* the last '@' is lower-cased
normalize_email(email) ==
    IF Len(email) = 3 /\ email[2] = "@"
    THEN <<email[1], "@", lower(email[3])>>
    ELSE email

\* AbstractBaseUser.set_password, called at models.py:101
make_password(password) ==
    IF password = None THEN <<"!">> ELSE <<"h", "$">> \o password

\* random.random() hashed and cut to five characters, models.py:114
Salts == {<<"0", "3", "c", "7", "e">>, <<"9", "f", "1", "a", "2">>}

\* one hexadecimal character per input character: SHA-1 is modelled as an
\* injective map onto 40-character lowercase hexadecimal strings
hexcode(c) ==
    CASE c \in HexChars -> c
      [] c = "@"        -> "4"
      [] c = "x.org"    -> "5"
      [] c = "X.org"    -> "6"
      [] OTHER          -> "7"

sha1_hexdigest(data) ==
    [i \in 1..40 |-> IF i <= Len(data) THEN hexcode(data[i]) ELSE "0"]

\* the mutant returns the salt-sized prefix of the digest
get_activation_key_truncated(salt, email) ==
    SubSeq(sha1_hexdigest(salt \o email), 1, 5)

\* models.py:113-118  UserManager._get_activation_key
get_activation_key(salt, email) == sha1_hexdigest(salt \o email)

\* the names class User defines or inherits (models.py:148-163 and the
\* Django bases); the module-level ACTIVATED of line 20 is not among them
UserClassAttrs == {"objects", "email", "created", "is_active", "is_staff",
                   "activation_key", "USERNAME_FIELD", "is_superuser",
                   "password", "last_login"}

\* models.py:165-171  User.activation_key_expired: "AttributeError" when the
\* lookup self.ACTIVATED fails, else "True" or "None" (falls off the end)
activation_key_expired(user, t, d) ==
    IF "ACTIVATED" \notin UserClassAttrs THEN "AttributeError"
    ELSE IF user.activation_key = ACTIVATED THEN "True"
    ELSE IF user.created + d <= t THEN "True"
    ELSE "None"

\* models.py:151  email is unique
EmailTaken(us, email) == \E i \in 1..Len(us) : us[i].email = email

NewUser(email, password, is_active, t) ==
    [email          |-> normalize_email(email),
     password       |-> make_password(password),
     created        |-> t,
     is_active      |-> is_active,
     is_staff       |-> FALSE,
     is_superuser   |-> FALSE,
     activation_key |-> Empty]

\* the mutant persists a user whatever the email
create_user_unchecked(us, email, password, is_active, t) ==
    IF EmailTaken(us, normalize_email(email))
    THEN [raised |-> "IntegrityError", users |-> us]
    ELSE [raised |-> "", users |-> Append(us, NewUser(email, password, is_active, t))]

\* models.py:96-104  UserManager.create_user: the outcome and the rows after
create_user(us, email, password, is_active, t) ==
    IF ~Truthy(email)
    THEN [raised |-> "ValueError", users |-> us]
    ELSE IF EmailTaken(us, normalize_email(email))
    THEN [raised |-> "IntegrityError", users |-> us]
    ELSE [raised |-> "", users |-> Append(us, NewUser(email, password, is_active, t))]

Call(op, email, key, raised, ret) ==
    [op |-> op, email |-> email, key |-> key, raised |-> raised, ret |-> ret,
     pre |-> users, preEvents |-> events, preSpent |-> spent, at |-> now]

\* models.py:96-104 called directly
CreateUser ==
    \E email \in EmailInputs, password \in PasswordInputs, is_active \in BOOLEAN :
        LET r == create_user(users, email, password, is_active, now) IN
        /\ users' = r.users
        /\ last' = Call("create_user", email, Empty, r.raised,
                        IF r.raised = "" THEN Len(r.users) ELSE 0)
        /\ UNCHANGED <<events, now, days, spent>>

\* models.py:106-111
CreateSuperuser ==
    \E email \in EmailInputs, password \in PasswordInputs :
        LET r == create_user(users, email, password, TRUE, now)
            n == Len(r.users) IN
        /\ users' = IF r.raised = ""
                    THEN [r.users EXCEPT ![n].is_superuser = TRUE,
                                         ![n].is_staff = TRUE]
                    ELSE r.users
        /\ last' = Call("create_superuser", email, Empty, r.raised,
                        IF r.raised = "" THEN n ELSE 0)
        /\ UNCHANGED <<events, now, days, spent>>

\* models.py:120-127
CreateInactiveUser ==
    \E email \in EmailInputs, password \in PasswordInputs,
       extra_info \in ExtraInfos, salt \in Salts :
        LET r == create_user(users, email, password, FALSE, now)
            n == Len(r.users) IN
        /\ users' = IF r.raised = ""
                    THEN [r.users EXCEPT ![n].activation_key =
                              get_activation_key(salt, r.users[n].email)]
                    ELSE r.users
        /\ events' = IF r.raised = ""
                     THEN Append(events, [signal |-> "inactive_user_created",
                                          sender |-> n, extra_info |-> extra_info])
                     ELSE events
        /\ last' = Call("create_inactive_user", email, Empty, r.raised,
                        IF r.raised = "" THEN n ELSE 0)
        /\ UNCHANGED <<now, days, spent>>

\* the rows self.get(activation_key=...) selects, models.py:132
Matching(us, key) == {i \in 1..Len(us) : us[i].activation_key = key}

\* keys a caller may present: every key stored, and malformed variants
Hex39 == [i \in 1..39 |-> "0"]
StoredKeys == {get_activation_key(s, <<l, "@", "x.org">>) : s \in Salts, l \in Locals}
KeyInputs ==
    StoredKeys
    \cup {Empty, ACTIVATED, Hex39, Hex39 \o <<"0">>, Hex39 \o <<"A">>,
          Hex39 \o <<"0", "\n">>}

\* history: the key joins spent when the row it selects is unconsumed and
\* unexpired at the time of the call
Presented(user, key) ==
    IF user.activation_key # ACTIVATED /\ user.created + days > now
    THEN spent \cup {key} ELSE spent

\* models.py:129-145  UserManager.activate_user
ActivateUser ==
    \E key \in KeyInputs :
        LET m == Matching(users, key) IN
        IF ~SHA1_RE_search(key)
        THEN /\ last' = Call("activate_user", Empty, key, "", 0)
             /\ UNCHANGED <<users, events, now, days, spent>>
        ELSE IF m = {}
        THEN /\ last' = Call("activate_user", Empty, key, "", 0)
             /\ UNCHANGED <<users, events, now, days, spent>>
        ELSE IF Cardinality(m) > 1
        THEN /\ last' = Call("activate_user", Empty, key, "MultipleObjectsReturned", 0)
             /\ UNCHANGED <<users, events, now, days, spent>>
        ELSE LET n == CHOOSE i \in m : TRUE
                 e == activation_key_expired(users[n], now, days) IN
             IF e = "AttributeError"
             THEN /\ last' = Call("activate_user", Empty, key, "AttributeError", 0)
                  /\ spent' = Presented(users[n], key)
                  /\ UNCHANGED <<users, events, now, days>>
             ELSE IF e = "True"
             THEN /\ last' = Call("activate_user", Empty, key, "", 0)
                  /\ UNCHANGED <<users, events, now, days, spent>>
             ELSE /\ users' = [users EXCEPT ![n].is_active = TRUE,
                                            ![n].activation_key = ACTIVATED]
                  /\ events' = Append(events, [signal |-> "user_activated",
                                               sender |-> n, extra_info |-> None])
                  /\ last' = Call("activate_user", Empty, key, "", n)
                  /\ spent' = Presented(users[n], key)
                  /\ UNCHANGED <<now, days>>

\* timezone.now() advances between calls (models.py:152, 170)
Tick ==
    /\ now < MaxTime
    /\ now' = now + 1
    /\ UNCHANGED <<users, events, last, days, spent>>

NoCall == [op |-> "none", email |-> Empty, key |-> Empty, raised |-> "",
           ret |-> 0, pre |-> <<>>, preEvents |-> <<>>, preSpent |-> {}, at |-> 0]

IdleUser    == users = <<>> /\ events = <<>> /\ last = NoCall /\ now = 0 /\ days = 1
               /\ spent = {}
IdleContact == contacts = <<>> /\ outbox = <<>> /\ flag = FALSE
               /\ receivers = {} /\ nsaves = 0
NoSave      == [op |-> "none", name |-> Empty, url |-> Empty, raised |-> "", pk |-> 0]
IdlePage    == pages = <<>> /\ lastPage = NoSave
NoErr       == [step |-> "", exc |-> "", call |-> ""]
IdleGen     == /\ target = <<>> /\ present = {} /\ names = <<>> /\ names0 = <<>>
               /\ text = <<>> /\ settings = <<>> /\ pc = "idle" /\ stack = <<>>
               /\ processed = {} /\ snap = <<>> /\ cloneRc = "notrun"
               /\ exportRc = "notrun" /\ err = NoErr

InitUser ==
    /\ users = <<>> /\ events = <<>> /\ last = NoCall /\ now = 0 /\ spent = {}
    /\ days \in 1..MaxDays
    /\ IdleContact /\ IdlePage /\ IdleGen

NextUser ==
    \/ CreateUser /\ UNCHANGED <<contactVars, pageVars, genVars>>
    \/ CreateSuperuser /\ UNCHANGED <<contactVars, pageVars, genVars>>
    \/ CreateInactiveUser /\ UNCHANGED <<contactVars, pageVars, genVars>>
    \/ ActivateUser /\ UNCHANGED <<contactVars, pageVars, genVars>>
    \/ Tick /\ UNCHANGED <<contactVars, pageVars, genVars>>

SpecUser == InitUser /\ [][NextUser]_vars

(***************************************************************************)
(* Contact, send_contact_mail                                              *)
(***************************************************************************)
\* models.py:50-56
CONTACT_STATUS == {"N", "O", "R", "C", "I"}

\* settings.PROJECT_CONTACT and settings.PROJECT_NAME, read at models.py:81-84
PROJECT_CONTACT == <<"c", "@", "p">>
PROJECT_NAME    == <<"P">>

ContactEmails == {<<"v", "@", "x">>, <<"w", "@", "x">>}

\* the mutant sends on every save
send_contact_mail_always(pk, instance, created, delivered, box) ==
    Append(box, [subject    |-> <<"New Contact from ">> \o PROJECT_NAME,
                 from_email |-> instance.email,
                 to         |-> <<PROJECT_CONTACT>>,
                 reply_to   |-> instance.email,
                 instance   |-> pk,
                 delivered  |-> delivered])

\* models.py:69-88  send_contact_mail; send(fail_silently=True) swallows a
\* transport failure, so the message is handed over whether or not delivered
send_contact_mail(pk, instance, created, delivered, box) ==
    IF ~created THEN box
    ELSE Append(box, [subject    |-> <<"New Contact from ">> \o PROJECT_NAME,
                      from_email |-> instance.email,
                      to         |-> <<PROJECT_CONTACT>>,
                      reply_to   |-> instance.email,
                      instance   |-> pk,
                      delivered  |-> delivered])

\* post_save.send for sender Contact: the receivers connected at models.py:92
post_save(pk, instance, created, delivered, box) ==
    IF "quickstartup.contact" \in receivers
    THEN send_contact_mail(pk, instance, created, delivered, box)
    ELSE box

\* models.py:59-66  a Contact saved for the first time
ContactCreate ==
    \E email \in ContactEmails, delivered \in BOOLEAN :
        LET c == [status |-> "N", email |-> email, created_at |-> Len(contacts)]
            pk == Len(contacts) + 1 IN
        /\ Len(contacts) < MaxContacts
        /\ contacts' = Append(contacts, c)
        /\ outbox' = post_save(pk, c, TRUE, delivered, outbox)
        /\ UNCHANGED <<flag, receivers, nsaves>>

\* models.py:59-66  an existing Contact saved again with another status
ContactUpdate ==
    \E pk \in 1..Len(contacts), status \in CONTACT_STATUS, delivered \in BOOLEAN :
        LET c == [contacts[pk] EXCEPT !.status = status] IN
        /\ nsaves < MaxSaves
        /\ contacts' = [contacts EXCEPT ![pk] = c]
        /\ outbox' = post_save(pk, c, FALSE, delivered, outbox)
        /\ nsaves' = nsaves + 1
        /\ UNCHANGED <<flag, receivers>>

\* models.py:91-92  the receiver is connected once, when the module is imported
InitContact ==
    /\ contacts = <<>> /\ outbox = <<>> /\ nsaves = 0
    /\ flag \in BOOLEAN
    /\ receivers = IF flag THEN {"quickstartup.contact"} ELSE {}
    /\ IdleUser /\ IdlePage /\ IdleGen

NextContact ==
    \/ ContactCreate /\ UNCHANGED <<userVars, pageVars, genVars>>
    \/ ContactUpdate /\ UNCHANGED <<userVars, pageVars, genVars>>

SpecContact == InitContact /\ [][NextContact]_vars

(***************************************************************************)
(* Page                                                                    *)
(***************************************************************************)
UrlChars == {"/", "-", "a"}
\* a Page url is an absolute path
Urls == {u \in SeqsUpTo(UrlChars, MaxUrlLen) : u # <<>> /\ u[1] = "/"}
        \cup {<<"/", "a", "/", "a">>}
PageNameInputs == {None, Empty, <<"h">>}

\* str.replace("/", "-")
replace(s) == [i \in 1..Len(s) |-> IF s[i] = "/" THEN "-" ELSE s[i]]

RECURSIVE lstrip(_)
lstrip(s) == IF s # <<>> /\ Head(s) = "-" THEN lstrip(Tail(s)) ELSE s

RECURSIVE rstrip(_)
rstrip(s) == IF s # <<>> /\ s[Len(s)] = "-"
             THEN rstrip(SubSeq(s, 1, Len(s) - 1)) ELSE s

\* str.strip("-")
strip(s) == rstrip(lstrip(s))

\* models.py:44-45  the name Page.save leaves on the instance
page_name(name, url) == IF ~Truthy(name) THEN strip(replace(url)) ELSE name

\* models.py:27-28  name and url are unique
PageClash(ps, pk, name, url) ==
    \E i \in 1..Len(ps) : i # pk /\ (ps[i].name = name \/ ps[i].url = url)

\* models.py:43-47  Page.save, of a new instance (pk = 0) or of a stored one
PageSave ==
    \E pk \in 0..Len(pages), name \in PageNameInputs, url \in Urls :
        LET n == page_name(name, url)
            row == [name |-> n, url |-> url] IN
        /\ pk = 0 => Len(pages) < MaxPages
        /\ IF PageClash(pages, pk, n, url)
           THEN /\ pages' = pages
                /\ lastPage' = [op |-> "save", name |-> name, url |-> url,
                                raised |-> "IntegrityError", pk |-> pk]
           ELSE /\ pages' = IF pk = 0 THEN Append(pages, row)
                            ELSE [pages EXCEPT ![pk] = row]
                /\ lastPage' = [op |-> "save", name |-> name, url |-> url,
                                raised |-> "",
                                pk |-> IF pk = 0 THEN Len(pages) + 1 ELSE pk]

InitPage ==
    /\ pages = <<>> /\ lastPage = NoSave
    /\ IdleUser /\ IdleContact /\ IdleGen

NextPage == PageSave /\ UNCHANGED <<userVars, contactVars, genVars>>

SpecPage == InitPage /\ [][NextPage]_vars

(***************************************************************************)
(* gencc.py: strings.  A file name, a manifest key or value and a file's   *)
(* text are sequences of chunks; a chunk is a quote, a newline, an          *)
(* extension or a run of characters holding neither quotes nor regular-     *)
(* expression metacharacters.                                               *)
(***************************************************************************)
DQ == "\""
SQ == "'"
NL == "\n"
Quotes == {DQ, SQ}

\* gencc.py:15-25
REMOVE_LIST    == {<<"gencc", ".py">>}
RAW_FILES_EXT  == {<<".html">>}
SKIP_FILES_EXT == {<<".png">>}

\* the mutant wraps Python sources as well
RAW_FILES_EXT_wide == {<<".html">>, <<".py">>}

\* gencc.py:89  ext in RAW_FILES_EXT
raw_exts == RAW_FILES_EXT

RAW_START == "{% raw %}"
RAW_END   == "{% endraw %}"

\* gencc.py:69  os.path.splitext(filename)[-1]: the last dotted part, unless
\* the name starts with it
ExtChunks == {".html", ".png", ".py", ".json", ".git"}
splitext(name) ==
    IF Len(name) > 1 /\ name[Len(name)] \in ExtChunks
    THEN <<name[Len(name)]>> ELSE Empty

\* gencc.py:52  "{{cookiecutter.%s}}" % (k,)
Placeholder(key) == <<"{{cookiecutter.">> \o key \o <<"}}">>

\* file.readlines(): the text cut after every newline
RECURSIVE readlines_from(_, _, _)
readlines_from(txt, start, i) ==
    IF i > Len(txt)
    THEN IF start > Len(txt) THEN <<>> ELSE <<SubSeq(txt, start, Len(txt))>>
    ELSE IF txt[i] = NL
    THEN <<SubSeq(txt, start, i)>> \o readlines_from(txt, i + 1, i + 1)
    ELSE readlines_from(txt, start, i + 1)

readlines(txt) == readlines_from(txt, 1, 1)

\* file.writelines(lines)
RECURSIVE writelines(_)
writelines(lines) ==
    IF lines = <<>> THEN <<>> ELSE Head(lines) \o writelines(Tail(lines))

\* gencc.py:13, 86  re.sub(QUOTED % (key,), '"%s"' % (value,), line): the
\* leftmost matches, none overlapping another, each replaced
RECURSIVE re_sub(_, _, _)
re_sub(key, value, line) ==
    LET n == Len(key) + 2 IN
    IF Len(line) < n THEN line
    ELSE IF /\ line[1] \in Quotes
            /\ SubSeq(line, 2, n - 1) = key
            /\ line[n] \in Quotes
    THEN <<DQ>> \o value \o <<DQ>> \o re_sub(key, value, SubSeq(line, n + 1, Len(line)))
    ELSE <<line[1]>> \o re_sub(key, value, Tail(line))

\* gencc.py:85-86  every entry of settings applied in turn, in dict order
RECURSIVE sub_all(_, _)
sub_all(line, stg) ==
    IF stg = <<>> THEN line
    ELSE sub_all(re_sub(Head(stg).value, Head(stg).token, line), Tail(stg))

\* gencc.py:89-91
raw_wrap(lines) ==
    LET first == [lines EXCEPT ![1] = <<RAW_START>> \o @] IN
    [first EXCEPT ![Len(first)] = @ \o <<RAW_END>>]

\* gencc.py:68-94  one file of the walk: whether it is removed, and its text
process_file(name, txt, stg) ==
    LET ext    == splitext(name)
        source == readlines(txt)
        lines  == [i \in 1..Len(source) |-> sub_all(source[i], stg)] IN
    IF ext \in SKIP_FILES_EXT THEN [removed |-> FALSE, text |-> txt]
    ELSE IF name \in REMOVE_LIST THEN [removed |-> TRUE, text |-> txt]
    ELSE IF source = <<>> THEN [removed |-> FALSE, text |-> txt]
    ELSE [removed |-> FALSE,
          text |-> writelines(IF ext \in raw_exts THEN raw_wrap(lines) ELSE lines)]

\* json.dump of a flat object of strings, and json.load of that layout
RECURSIVE json_pairs(_)
json_pairs(pairs) ==
    IF pairs = <<>> THEN <<>>
    ELSE <<DQ>> \o Head(pairs).key \o <<DQ, ":", DQ>> \o Head(pairs).value \o <<DQ>>
         \o (IF Len(pairs) > 1 THEN <<",">> ELSE <<>>) \o json_pairs(Tail(pairs))

json_text(pairs) == <<"{">> \o json_pairs(pairs) \o <<"}">>

JsonWellFormed(txt) ==
    /\ Len(txt) >= 2 /\ (Len(txt) = 2 \/ Len(txt) % 8 = 1)
    /\ txt[1] = "{" /\ txt[Len(txt)] = "}"
    /\ \A i \in 0..((Len(txt) - 1) \div 8 - 1) :
        LET b == 1 + 8 * i IN
        /\ txt[b + 1] = DQ /\ txt[b + 3] = DQ /\ txt[b + 4] = ":"
        /\ txt[b + 5] = DQ /\ txt[b + 7] = DQ
        /\ txt[b + 2] \notin Quotes /\ txt[b + 6] \notin Quotes
        /\ txt[b + 8] = IF b + 8 = Len(txt) THEN "}" ELSE ","

\* gencc.py:51  json.load(settings_file), of a well-formed text
json_load(txt) ==
    [i \in 1..((Len(txt) - 1) \div 8) |->
        [key |-> <<txt[8 * i - 5]>>, value |-> <<txt[8 * i - 1]>>]]

\* gencc.py:52  {v: "{{cookiecutter.%s}}" % (k,) for k, v in ...}: one entry
\* per value, of any of its keys, in any iteration order
load_settings(pairs) ==
    LET entries == {[value |-> pairs[i].value, token |-> Placeholder(pairs[i].key)] :
                        i \in 1..Len(pairs)}
        vals    == {e.value : e \in entries}
        n       == Cardinality(vals) IN
    {stg \in [1..n -> entries] : {stg[i].value : i \in 1..n} = vals}

\* gencc.py:63  basename in settings
InSettings(stg, name) == \E i \in 1..Len(stg) : stg[i].value = name

\* gencc.py:64-65  settings[basename]
Lookup(stg, name) == (CHOOSE e \in Range(stg) : e.value = name).token

(***************************************************************************)
(* gencc.py: the target tree and the walk                                  *)
(***************************************************************************)
\* the shape of the target tree: node 0 is the target directory, nodes 1-4
\* are directories, nodes 5-7 files; Parent[n] is the directory holding n
Nodes     == 0..7
Parent    == <<0, 1, 0, 3, 4, 3, 0>>
DirNodes  == {0, 1, 2, 3, 4}
FileNodes == {5, 6, 7}

GIT    == <<".git">>
MANIFEST_NAME == <<"cookiecutter", ".json">>

\* os.path.join(path, basename), as the list of names below the target
RECURSIVE PathOf(_, _)
PathOf(nm, n) == IF n = 0 THEN <<>> ELSE Append(PathOf(nm, Parent[n]), nm[n])

\* the node a path names, if any
Resolve(nm, pr, path) == {n \in pr : PathOf(nm, n) = path}

\* gencc.py:57  ".git" in path: a substring test on the whole path string,
\* the target's own path included
ContainsGit(tgt, path) ==
    \E i \in 1..(Len(path) + 1) : ".git" \in Range((<<tgt>> \o path)[i])

Children(pr, n, kind) == {c \in (pr \cap kind) \ {0} : Parent[c] = n}

RECURSIVE SetToSeq(_)
SetToSeq(S) ==
    IF S = {} THEN <<>>
    ELSE LET m == CHOOSE x \in S : \A y \in S : x <= y IN
         <<m>> \o SetToSeq(S \ {m})

\* gencc.py:64  the name os.rename gives a directory
rename_to(stg, basename) ==
    IF InSettings(stg, basename) THEN Lookup(stg, basename) ELSE basename

\* the mutant leaves the old name in dirs
dirs_entry_stale(stg, basename) == basename

\* gencc.py:63-65  dirs[i] after the loop body
dirs_entry(stg, basename) ==
    IF InSettings(stg, basename) THEN Lookup(stg, basename) ELSE basename

\* gencc.py:55-56  generate_cookiecutter is called: os.walk(target) starts
Generate ==
    /\ pc = "generate"
    /\ pc' = "walking"
    /\ stack' = << <<>> >>
    /\ processed' = {}
    /\ snap' = IF snap = <<>> THEN <<text>> ELSE snap
    /\ UNCHANGED <<target, present, names, names0, text, settings,
                   cloneRc, exportRc, err>>

\* gencc.py:56-94  one iteration of the for loop: os.walk lists the next
\* directory (a path that names none is passed over in silence), the body
\* runs unless the path contains ".git", and the entries of dirs are queued
WalkStep ==
    /\ pc = "walking" /\ stack # <<>>
    /\ LET path == Head(stack)
           hit  == Resolve(names, present, path) \cap DirNodes IN
       IF hit = {}
       THEN /\ stack' = Tail(stack)
            /\ UNCHANGED <<names, text, present, processed>>
       ELSE LET n     == CHOOSE x \in hit : TRUE
                dirs  == SetToSeq(Children(present, n, DirNodes))
                files == Children(present, n, FileNodes)
                skip  == ContainsGit(target, path)
                res(f) == process_file(names[f], text[f], settings) IN
            /\ names' = [c \in 1..7 |->
                           IF ~skip /\ c \in Range(dirs)
                           THEN rename_to(settings, names[c]) ELSE names[c]]
            /\ text' = [f \in FileNodes |->
                           IF ~skip /\ f \in files THEN res(f).text ELSE text[f]]
            /\ present' = IF skip THEN present
                          ELSE present \ {f \in files : res(f).removed}
            /\ processed' = IF skip THEN processed ELSE processed \cup {n}
            /\ stack' = [i \in 1..Len(dirs) |->
                            Append(path, IF skip THEN names[dirs[i]]
                                         ELSE dirs_entry(settings, names[dirs[i]]))]
                        \o Tail(stack)
    /\ pc' = IF stack' = <<>> THEN "done" ELSE "walking"
    /\ snap' = IF stack' = <<>> THEN Append(snap, text') ELSE snap
    /\ UNCHANGED <<target, names0, settings, cloneRc, exportRc, err>>

\* gencc.py:55  generate_cookiecutter called again on its own output
Rerun ==
    /\ pc = "done"
    /\ Len(snap) <= MaxRuns
    /\ pc' = "generate"
    /\ UNCHANGED <<target, present, names, names0, text, settings, stack,
                   processed, snap, cloneRc, exportRc, err>>

(***************************************************************************)
(* gencc.py: inputs                                                        *)
(***************************************************************************)
\* args.target resolved by os.path.abspath (gencc.py:102)
Targets == {<<"out">>, <<"out", ".git">>}

ACME == <<"Acme">>
PKG  == <<"pkg">>

\* cookiecutter.json as written in the reference project
Manifests ==
    { <<[key |-> <<"project_name">>, value |-> ACME]>>,
      <<[key |-> <<"project_name">>, value |-> ACME],
        [key |-> <<"package">>, value |-> PKG]>>,
      <<[key |-> <<"project_name">>, value |-> ACME],
        [key |-> <<"repo">>, value |-> ACME]>> }

DefaultNames == <<GIT, <<"hooks">>, <<"src">>, PKG, <<"settings", ".py">>,
                  <<"README">>, MANIFEST_NAME>>

SourceText == <<"x", "=", DQ, "Acme", DQ, NL, "y", "=", SQ, "pkg", SQ, NL>>

\* trees with the given choices of names and of the text of file 5
Trees(N1, N2, N3, N4, N5, N6, T5) ==
    {t \in
        {[names |-> <<n1, n2, n3, n4, n5, n6, MANIFEST_NAME>>,
          text  |-> [f \in FileNodes |->
                        IF f = 5 THEN t5 ELSE IF f = 6 THEN <<DQ, "Acme", DQ>>
                        ELSE json_text(m)]] :
            n1 \in N1, n2 \in N2, n3 \in N3, n4 \in N4, n5 \in N5, n6 \in N6,
            t5 \in T5, m \in Manifests} :
        \* no two entries of a directory bear the same name
        t.names[3] # t.names[1] /\ t.names[6] # t.names[4]}

FileNames == {ACME, <<"index", ".html">>, <<"logo", ".png">>,
              <<"gencc", ".py">>, <<"settings", ".py">>}

GenTrees ==
    Trees({GIT, <<".git", "hub">>, <<"docs">>}, {ACME, <<"hooks">>},
          {ACME, <<"docs">>}, {ACME, PKG}, FileNames, {ACME, <<"README">>},
          {Empty, SourceText})

InitGen ==
    /\ target \in Targets
    /\ present = Nodes
    /\ \E t \in GenTrees :
        /\ names = t.names
        /\ names0 = t.names
        /\ text = t.text
        /\ snap = <<t.text>>
        /\ settings \in load_settings(json_load(t.text[7]))
    /\ pc = "generate" /\ stack = <<>> /\ processed = {}
    /\ cloneRc = "notrun" /\ exportRc = "notrun" /\ err = NoErr
    /\ IdleUser /\ IdleContact /\ IdlePage

NextGen ==
    \/ Generate /\ UNCHANGED <<userVars, contactVars, pageVars>>
    \/ WalkStep /\ UNCHANGED <<userVars, contactVars, pageVars>>
    \/ Rerun /\ UNCHANGED <<userVars, contactVars, pageVars>>

SpecGen == InitGen /\ [][NextGen]_vars

\* a target holding one file, of any name and any text
TextChars == {DQ, SQ, NL, "Acme", "pkg"}
Texts == SeqsUpTo(TextChars, MaxTextLen)

InitRewrite ==
    /\ target = <<"out">>
    /\ present = {0, 7}
    /\ \E fn \in FileNames, t \in Texts, m \in Manifests :
        /\ names = [DefaultNames EXCEPT ![7] = fn]
        /\ names0 = names
        /\ text = [f \in FileNodes |-> IF f = 7 THEN t ELSE Empty]
        /\ snap = <<text>>
        /\ settings \in load_settings(m)
    /\ pc = "generate" /\ stack = <<>> /\ processed = {}
    /\ cloneRc = "notrun" /\ exportRc = "notrun" /\ err = NoErr
    /\ IdleUser /\ IdleContact /\ IdlePage

SpecRewrite == InitRewrite /\ [][NextGen]_vars

(***************************************************************************)
(* gencc.py: main, clone, export, load_settings                            *)
(***************************************************************************)
\* the mutant raises on a non-zero exit status
os_system_checked(rc) == rc = "fail"

\* gencc.py:31, 46  os.system(...): the exit status it returns is dropped,
\* whatever the command did
os_system_aborts(rc) == FALSE

\* the entry of the target directory that holds node n
RECURSIVE Top(_)
Top(n) == IF n = 0 \/ Parent[n] = 0 THEN n ELSE Top(Parent[n])

\* gencc.py:29  os.path.isdir(os.path.join(target, ".git"))
IsWorkingCopy(pr, nm) ==
    \E n \in pr \cap DirNodes : n # 0 /\ Parent[n] = 0 /\ nm[n] = GIT

\* gencc.py:33-42  what the loop over os.listdir(target) leaves in place
Kept(pr, nm) == {n \in pr : n = 0 \/ nm[Top(n)] = GIT}

\* what "git clone" makes of the path it is given, rmtree having removed it:
\* a checkout, or on failure nothing, an empty directory or a half-written one
CloneOutcomes ==
    { [rc |-> "ok",   present |-> Nodes],
      [rc |-> "fail", present |-> {}],
      [rc |-> "fail", present |-> {0}],
      [rc |-> "fail", present |-> {0, 1, 2}] }

Raise(step, exc, call) ==
    /\ pc' = "error"
    /\ err' = [step |-> step, exc |-> exc, call |-> call]

\* gencc.py:28-42, 104  clone(target)
Clone ==
    /\ pc = "clone"
    /\ IF IsWorkingCopy(present, names)
       THEN /\ present' = Kept(present, names)
            /\ pc' = "export"
            /\ UNCHANGED <<names, cloneRc, err>>
       ELSE IF 0 \notin present
       THEN /\ Raise("clone", "OSError", "shutil.rmtree")
            /\ UNCHANGED <<present, names, cloneRc>>
       ELSE \E o \in CloneOutcomes :
            /\ cloneRc' = o.rc
            /\ names' = DefaultNames
            /\ IF os_system_aborts(o.rc)
               THEN /\ Raise("clone", "CalledProcessError", "os.system")
                    /\ present' = o.present
               ELSE IF 0 \notin o.present
               THEN /\ Raise("clone", "OSError", "os.listdir")
                    /\ present' = o.present
               ELSE /\ present' = Kept(o.present, DefaultNames)
                    /\ pc' = "export"
                    /\ err' = err
    /\ UNCHANGED <<target, names0, text, settings, stack, processed, snap,
                   exportRc>>

\* the master branches the archive is taken from
ExportTrees ==
    Trees({GIT}, {<<"hooks">>}, {ACME, <<"src">>}, {ACME, PKG},
          {<<"index", ".html">>, <<"settings", ".py">>}, {<<"README">>},
          {SourceText})

\* the entries "git archive master | tar -x" extracts before it fails
PartialExports == { {}, {3, 4}, {3, 4, 5, 6}, {3, 7} }

\* a cookiecutter.json that json.load rejects
BrokenJson == <<"{", DQ, "project_name", DQ, ":">>

\* gencc.py:45-46, 105  export(target)
Export ==
    /\ pc = "export"
    /\ \E t \in ExportTrees, rc \in {"ok", "fail"}, part \in PartialExports,
          broken \in BOOLEAN :
        /\ rc = "ok" => part = {}
        /\ exportRc' = rc
        /\ present' = present \cup (IF rc = "ok" THEN {3, 4, 5, 6, 7} ELSE part)
        /\ names' = [n \in 1..7 |-> IF n \in {1, 2} THEN names[n] ELSE t.names[n]]
        /\ names0' = names'
        /\ text' = [t.text EXCEPT ![7] = IF broken THEN BrokenJson ELSE @]
        /\ IF os_system_aborts(rc)
           THEN Raise("export", "CalledProcessError", "os.system")
           ELSE pc' = "load_settings" /\ err' = err
    /\ UNCHANGED <<target, settings, stack, processed, snap, cloneRc>>

\* gencc.py:49-52, 106  settings = load_settings(target)
LoadSettingsCall ==
    /\ pc = "load_settings"
    /\ LET found == {f \in present \cap FileNodes :
                        Parent[f] = 0 /\ names[f] = MANIFEST_NAME} IN
       IF found = {}
       THEN Raise("load_settings", "IOError", "open") /\ UNCHANGED settings
       ELSE LET f == CHOOSE x \in found : TRUE IN
            IF ~JsonWellFormed(text[f])
            THEN Raise("load_settings", "ValueError", "json.load")
                 /\ UNCHANGED settings
            ELSE /\ settings' \in load_settings(json_load(text[f]))
                 /\ pc' = "generate"
                 /\ err' = err
    /\ UNCHANGED <<target, present, names, names0, text, stack, processed,
                   snap, cloneRc, exportRc>>

\* what the path given to main names before the run
InitialDisks == { {}, {0}, {0, 3, 6}, {0, 1, 2}, Nodes }

\* gencc.py:97-102
InitMain ==
    /\ target \in Targets
    /\ present \in InitialDisks
    /\ names = DefaultNames /\ names0 = DefaultNames
    /\ text = [f \in FileNodes |-> Empty]
    /\ settings = <<>>
    /\ pc = "clone" /\ stack = <<>> /\ processed = {} /\ snap = <<>>
    /\ cloneRc = "notrun" /\ exportRc = "notrun" /\ err = NoErr
    /\ IdleUser /\ IdleContact /\ IdlePage

\* gencc.py:104-107  the four calls of main, in order
NextMain ==
    \/ Clone /\ UNCHANGED <<userVars, contactVars, pageVars>>
    \/ Export /\ UNCHANGED <<userVars, contactVars, pageVars>>
    \/ LoadSettingsCall /\ UNCHANGED <<userVars, contactVars, pageVars>>
    \/ Generate /\ UNCHANGED <<userVars, contactVars, pageVars>>
    \/ WalkStep /\ UNCHANGED <<userVars, contactVars, pageVars>>

SpecMain == InitMain /\ [][NextMain]_vars

(***************************************************************************)
(* Claims about User and UserManager, checked under SpecUser               *)
(***************************************************************************)
IsHex40(s) == Len(s) = 40 /\ Range(s) \subseteq HexChars

Activations(n) ==
    Cardinality({i \in 1..Len(events) :
                    events[i].signal = "user_activated" /\ events[i].sender = n})

Registered(n) ==
    \E i \in 1..Len(events) :
        events[i].signal = "inactive_user_created" /\ events[i].sender = n

\* the rows of `us` whose key is `key`, unconsumed and unexpired at time t
Pending(us, key, t) ==
    {n \in Matching(us, key) :
        IsHex40(us[n].activation_key) /\ us[n].created + days > t}

\* C1: activate_user, given the 40-hex key of a user whose key is unconsumed
\* and unexpired (created + ACCOUNT_ACTIVATION_DAYS > now), returns that user;
\* afterwards the user is active, its key is ALREADY_ACTIVATED and exactly one
\* "user activated" event has been sent for it.
C1_ActivateReturnsUser ==
    last.op = "activate_user" =>
        \A n \in Pending(last.pre, last.key, last.at) :
            /\ last.raised = ""
            /\ last.ret = n
            /\ users[n].is_active
            /\ users[n].activation_key = ACTIVATED
            /\ Activations(n) = 1

\* the call C1 is about has been made
C1_Reached ==
    /\ last.op = "activate_user"
    /\ Pending(last.pre, last.key, last.at) # {}

\* C2: activate_user never raises: for a key that is malformed, matches no
\* user, belongs to a user whose key has expired, or is the sentinel, the call
\* returns no value, leaves every user unchanged and sends no event.
C2_RejectedKeyIsSilent ==
    (/\ last.op = "activate_user"
     /\ \/ ~IsHex40(last.key)
        \/ Matching(last.pre, last.key) = {}
        \/ \E n \in Matching(last.pre, last.key) :
               last.pre[n].created + days <= last.at
        \/ last.key = ACTIVATED)
    => /\ last.raised = ""
       /\ last.ret = 0
       /\ users = last.pre
       /\ events = last.preEvents

\* C3: every persisted user's activation_key is a 40-character lowercase
\* hexadecimal string or the sentinel ALREADY_ACTIVATED.
C3_KeyIsHexOrSentinel ==
    \A n \in 1..Len(users) :
        IsHex40(users[n].activation_key) \/ users[n].activation_key = ACTIVATED

\* C3 as amended: the key of a user made by create_inactive_user is a
\* 40-character lowercase hexadecimal string or the sentinel; the key of a
\* user made by create_user or create_superuser is the empty string.
C3_KeyIsEmptyHexOrSentinel ==
    \A n \in 1..Len(users) :
        IF Registered(n)
        THEN IsHex40(users[n].activation_key) \/ users[n].activation_key = ACTIVATED
        ELSE users[n].activation_key = Empty

C3_Reached ==
    \E m, n \in 1..Len(users) :
        /\ ~Registered(m) /\ users[m].is_superuser
        /\ Registered(n) /\ IsHex40(users[n].activation_key)

\* C4: a key is consumed exactly once: the first activate_user call on a
\* valid, unexpired key activates the user and consumes the key, every later
\* call with that key returns no value, changes no user and sends no event,
\* and no user is activated twice.
C4_KeyConsumedOnce ==
    /\ \A k \in spent : Matching(users, k) = {}
    /\ \A n \in 1..Len(users) : Activations(n) <= 1
    /\ (last.op = "activate_user" /\ last.key \in last.preSpent)
       => /\ last.raised = ""
          /\ last.ret = 0
          /\ users = last.pre
          /\ events = last.preEvents

\* C5: create_user with an empty or absent email raises ValueError and
\* persists nothing; create_superuser and create_inactive_user propagate it,
\* the users are unchanged and no "inactive user created" event is sent.
C5_EmptyEmailRejected ==
    (/\ last.op \in {"create_user", "create_superuser", "create_inactive_user"}
     /\ ~Truthy(last.email))
    => /\ last.raised = "ValueError"
       /\ last.ret = 0
       /\ users = last.pre
       /\ events = last.preEvents

C5_Reached ==
    /\ last.op = "create_inactive_user"
    /\ last.email = Empty
    /\ last.raised = "ValueError"
    /\ Len(users) = 1

(***************************************************************************)
(* Claim about Contact, checked under SpecContact                          *)
(***************************************************************************)
\* C6: with the "contact" flag disabled at start no email is ever sent; with
\* it enabled every Contact creation sends exactly one email, to the project
\* contact address and with Reply-To the submitter's email, and an update
\* sends none: the emails sent number the contacts created, or zero.
C6_OneMailPerCreation ==
    /\ Len(outbox) = IF flag THEN Len(contacts) ELSE 0
    /\ \A i \in 1..Len(outbox) :
        /\ outbox[i].instance = i
        /\ outbox[i].to = <<PROJECT_CONTACT>>
        /\ outbox[i].reply_to = contacts[i].email

C6_Reached ==
    /\ flag
    /\ Len(contacts) = 2
    /\ nsaves = 2
    /\ Len(outbox) = 2
    /\ contacts[1].status = "R"

(***************************************************************************)
(* Claim about Page, checked under SpecPage                                *)
(***************************************************************************)
\* C7: Page.save persists a non-empty name: a Page saved without a name gets
\* the url with every "/" replaced by "-" and the "-" at both ends trimmed,
\* and a Page saved with a name keeps it.
C7_NamePopulated ==
    (lastPage.op = "save" /\ lastPage.raised = "")
    => /\ pages[lastPage.pk].name # Empty
       /\ pages[lastPage.pk].name # None
       /\ Truthy(lastPage.name) => pages[lastPage.pk].name = lastPage.name
       /\ ~Truthy(lastPage.name)
            => pages[lastPage.pk].name = strip(replace(lastPage.url))

C7_Reached ==
    /\ lastPage.op = "save" /\ lastPage.raised = ""
    /\ lastPage.name = None
    /\ lastPage.url = <<"/", "a", "/", "a">>
    /\ pages[lastPage.pk].name = <<"a", "-", "a">>

(***************************************************************************)
(* Claims about generate_cookiecutter                                      *)
(***************************************************************************)
\* a quoted occurrence of `value` starts at position j of txt
QuotedAt(txt, j, value) ==
    /\ j >= 1 /\ j + Len(value) + 1 <= Len(txt)
    /\ txt[j] \in Quotes
    /\ SubSeq(txt, j + 1, j + Len(value)) = value
    /\ txt[j + Len(value) + 1] \in Quotes

\* some quote of txt closes one quoted concrete value and opens another
SharedQuote(txt, stg) ==
    \E i \in 1..Len(txt), a, b \in 1..Len(stg) :
        /\ QuotedAt(txt, i - Len(stg[a].value) - 1, stg[a].value)
        /\ QuotedAt(txt, i, stg[b].value)

\* the files both walks rewrote
Rewritten == FileNodes \cap present

\* C8: generation is idempotent on file contents: for every manifest and
\* every processed file, raw-wrapped .html files included, a second run over
\* the output of the first leaves the file's content unchanged.
\* (checked under SpecRewrite)
C8_SecondRunChangesNothing ==
    Len(snap) = 3 => \A f \in Rewritten : snap[3][f] = snap[2][f]

\* C8 as amended: a second run leaves a file unchanged when its extension is
\* not in RAW_FILES_EXT and no quote of the original text closes one quoted
\* concrete value and opens another; under the same condition on the text, a
\* non-empty .html file gains one more raw marker at each end.
C8_SecondRunOutsideRawAndSharedQuotes ==
    Len(snap) = 3 =>
        \A f \in Rewritten :
            ~SharedQuote(snap[1][f], settings) =>
                IF splitext(names[f]) \in RAW_FILES_EXT /\ snap[1][f] # Empty
                THEN snap[3][f] = <<RAW_START>> \o snap[2][f] \o <<RAW_END>>
                ELSE snap[3][f] = snap[2][f]

C8_Reached ==
    /\ Len(snap) = 3
    /\ 7 \in present
    /\ names[7] = <<"settings", ".py">>
    /\ snap[1][7] = <<DQ, "Acme", DQ, NL, SQ>>
    /\ snap[2][7] = <<DQ>> \o Placeholder(<<"project_name">>) \o <<DQ, NL, SQ>>
    /\ snap[3][7] = snap[2][7]

\* a component of the path of node n is the version-control directory
RECURSIVE InVC(_, _)
InVC(nm, n) == n # 0 /\ (nm[n] = GIT \/ InVC(nm, Parent[n]))

\* C9: after generate_cookiecutter, every directory and every file outside
\* version-control metadata whose base name is a manifest concrete value has
\* been renamed to its placeholder token, at every depth, and the contents of
\* each renamed directory were visited by the walk.  (checked under SpecGen)
C9_DirsAndFilesRenamed ==
    pc = "done" =>
        \A n \in present \ {0} :
            (InSettings(settings, names0[n]) /\ ~InVC(names0, n))
            => /\ names[n] = Lookup(settings, names0[n])
               /\ n \in DirNodes => n \in processed

\* C9 as amended: after generate_cookiecutter, every directory whose base
\* name is a manifest concrete value and whose parent's path (the target's
\* own path included) does not contain the substring ".git" has been renamed
\* to its placeholder token, at every depth, and the loop body ran for it, so
\* that its files were rewritten; no file is ever renamed.
C9_DirsRenamed ==
    pc = "done" =>
        /\ \A n \in DirNodes \ {0} :
            (/\ InSettings(settings, names0[n])
             /\ ~ContainsGit(target, PathOf(names, Parent[n])))
            => /\ names[n] = Lookup(settings, names0[n])
               /\ n \in processed
               /\ Len(snap) = 2 =>
                    \A f \in Children(present, n, FileNodes) :
                        text[f] = process_file(names[f], snap[1][f], settings).text
        /\ \A f \in FileNodes : names[f] = names0[f]

C9_Reached ==
    /\ pc = "done"
    /\ target = <<"out">>
    /\ names0[3] = ACME /\ names0[4] = ACME
    /\ names[3] = Placeholder(<<"project_name">>)
    /\ names[4] = Placeholder(<<"project_name">>)
    /\ 4 \in processed
    /\ names0[5] = <<"index", ".html">>
    /\ text[5] # snap[1][5]

(***************************************************************************)
(* Claims about main                                                       *)
(***************************************************************************)
AbortedAt(step) == pc = "error" /\ err.step = step

\* C10: in main's sequence clone, export, load_settings,
\* generate_cookiecutter, a failed clone or export command is not detected:
\* the run does not stop at the step whose command failed but goes on to the
\* following steps, and ends only on a later error.  (checked under SpecMain)
C10_FailedCommandNeverStopsItsStep ==
    /\ cloneRc = "fail" => ~AbortedAt("clone")
    /\ exportRc = "fail" => ~AbortedAt("export")

\* C10 as amended: the exit status of neither command is looked at.  A failed
\* export never stops the run at export: load_settings is called next.  A
\* failed clone stops the run inside clone exactly when it leaves no target
\* directory behind, with the OSError of os.listdir; when it leaves a
\* directory, the run goes on to export.
C10_FailedCloneStopsOnlyWithoutDirectory ==
    /\ exportRc = "fail" => ~AbortedAt("export") /\ pc # "export"
    /\ cloneRc = "fail" =>
        /\ AbortedAt("clone") <=> 0 \notin present
        /\ AbortedAt("clone") => err.exc = "OSError" /\ err.call = "os.listdir"
        /\ pc # "clone"

C10_Reached ==
    /\ cloneRc = "fail" /\ exportRc = "fail"
    /\ AbortedAt("load_settings")
    /\ err.exc = "IOError"
    /\ present = {0, 1, 2, 3, 4}

====
